---- MODULE Spec2Model ----
(***************************************************************************)
(* Model of the pizza optimisation solver of webapp/solver.py: solve()     *)
(* validates the order, dispatches to solve_whole() or solve_half(), each  *)
(* of which resolves the preference matrix (_build_prefs), builds an ILP,  *)
(* hands it to the MILP engine (pulp / CBC), checks the status and then    *)
(* creates one OrderedPizza per pizza index.                               *)
(*                                                                         *)
(* The MILP engine is the only part that is not code of the repository: it *)
(* is modelled by what it guarantees, namely that it returns status        *)
(* Optimal together with SOME optimal solution of the model it was given   *)
(* (any of them), or status Infeasible when the constraints have no        *)
(* solution.  Feasible and optimal solutions are computed by enumeration   *)
(* of the binary variables against the constraints and the objective the   *)
(* code builds.                                                            *)
(*                                                                         *)
(* Indices are 1-based here (people 1..P, toppings 1..T, pizzas 1..K)      *)
(* where the code uses range(P), range(T), range(K).                       *)
(*                                                                         *)
(* Spec is one call of solve(order) on an order whose stored preference    *)
(* rows may be any.  WebSpec has the rows in the state: the profile_edit   *)
(* and order_join requests of webapp/views.py write them before solve()    *)
(* reads them.  WholeSpec is Spec in whole mode only; ValidSpec is Spec on  *)
(* the orders solve() does not reject.  MergeSpec adds the topping_merge   *)
(* request to WebSpec.  OrderSpec is the create_order view: concurrent     *)
(* generate requests on one invite order, each loading the order, saving   *)
(* the form and calling solve().  GroupsSpec is the grouping search of     *)
(* pizza.py (get_groups inside the loop of get_best_pizzas).               *)
(***************************************************************************)
EXTENDS Integers, FiniteSets, Sequences, TLC

\* ------------------------------------------------------------------ bounds
\* Largest number of people on an order.
MaxPeople == 3
\* Largest num_pizzas tried (the smallest is -1, see NumPizzasChoices).
MaxPizzas == 2
\* Largest number of (person, topping) pairs: |people| * |toppings|.
MaxCells == 4
\* Largest number of assignment and topping variables of the whole-pizza
\* models of WholeSpec.
MaxWholeVars == 11
\* Largest number of (person, topping) pairs of an order whose stored rows
\* are part of the state (WebSpec).
MaxWebCells == 2
\* Largest number of people a grouping search of pizza.py is given.
MaxGroupPeople == 4
\* Largest number of assignment, topping and split variables of the model
\* (see NumVars).
MaxVars == 14

\* ------------------------------------------------------- program constants
\* PersonToppingPreference levels.
ALLERGY == -2
DISLIKE == -1
NEUTRAL == 0
LIKE == 1
\* The status value solve_whole / solve_half accept (pulp.LpStatusOptimal).
LpStatusOptimal == 1
\* pulp.LpStatusInfeasible
LpStatusInfeasible == -1
\* pulp.LpStatusUnbounded
LpStatusUnbounded == -2
\* The literal topping cap of constraint 3 (whole) / 4 (half).
ToppingCap == 3
\* Catalogues have up to one topping more than the cap, so that the cap binds.
MaxToppings == ToppingCap + 1
\* Half mode: score bonus of a pizza that is not split.
NoSplitBonus == 2
\* pizza.py: the mark of a place of the group list that is still free.
Blank == -1
\* pizza.py: the mark of a spacer, a place that stays empty.
Spacer == -2
\* pizza.py: the number of groupings after which the search loop breaks.
LoopCutOff == 500000

VARIABLES
    people,                     \* order.people, as the set 1..P
    toppings,                   \* order.vendor.toppings, as the set 1..T
    num_pizzas,                 \* order.num_pizzas
    pizza_mode,                 \* order.pizza_mode: "whole" | "half"
    optimization_mode,          \* order.optimization_mode
    shareability_bonus_weight,  \* the order's shareability weight, in tenths
    prefs,                      \* the matrix _build_prefs returned, or <<>>
    pc,                         \* where the call of solve() stands
    model_built,                \* an LpProblem has been constructed
    engine_calls,               \* number of prob.solve() calls made
    status,                     \* prob.status after prob.solve(), 0 before
    solution,                   \* the variable values the engine returned
    pizzas,                     \* OrderedPizza rows created, in order
    error,                      \* the exception solve() raised, or "none"
    topping_preferences,        \* PersonToppingPreference rows: (p, t) -> value
    unrated_is_dislike,         \* Person.unrated_is_dislike of each person
    guests,                     \* the people with guest_for_order = order
    already_solved,             \* order_join has rendered its already_solved page
    merged,                     \* <<source, target>> of the last topping_merge
    persons,                    \* the Person table (create_order runs)
    orders,                     \* the Order table: id -> row
    ordered_pizzas,             \* the OrderedPizza table, in insertion order
    last_order_id,              \* the last primary key given to an Order
    requests,                   \* the create_order POST requests in flight
    lst,                        \* get_groups: the list of people
    num_groups,                 \* get_groups: p, the number of groups
    groupsets,                  \* the groupings get_groups yields, in order
    loop_index                  \* get_best_pizzas: groupings looked at

vars == <<people, toppings, num_pizzas, pizza_mode, optimization_mode,
          shareability_bonus_weight, prefs, pc, model_built, engine_calls,
          status, solution, pizzas, error, topping_preferences,
          unrated_is_dislike, guests, already_solved, merged, persons,
          orders,
          ordered_pizzas, last_order_id, requests, lst, num_groups,
          groupsets, loop_index>>

\* The tables and requests of the create_order runs.
site == <<persons, orders, ordered_pizzas, last_order_id, requests>>

\* The state of the grouping search of pizza.py.
search == <<lst, num_groups, groupsets, loop_index>>

\* What a call of solve() on the order of the state never touches.
elsewhere == <<already_solved, merged, site, search>>

\* The stored rows solve() reads and the requests write.
db == <<topping_preferences, unrated_is_dislike, guests>>

order == <<people, toppings, num_pizzas, pizza_mode, optimization_mode,
           shareability_bonus_weight>>

\* ------------------------------------------------------------- arithmetic
RECURSIVE lpSum(_, _)
\* pulp.lpSum: the sum of f[e] over e in S.
lpSum(f, S) ==
    IF S = {} THEN 0
    ELSE LET e == CHOOSE e \in S : TRUE IN f[e] + lpSum(f, S \ {e})

\* Python's a // b (floor division), b # 0.
FloorDiv(a, b) == IF b > 0 THEN a \div b ELSE (0 - a) \div (0 - b)

\* Python's math.ceil(a / b), b # 0.
CeilDiv(a, b) == 0 - FloorDiv(0 - a, b)

\* The value of a binary variable, from the set representation.
Bin(b) == IF b THEN 1 ELSE 0

SetMax(S) == CHOOSE m \in S : \A n \in S : n <= m

SetMin(S) == CHOOSE m \in S : \A n \in S : m <= n

\* range(K), 1-based; empty when K <= 0.
Range(K) == 1 .. K

\* ---------------------------------------------------------- _build_prefs
\* Mutant of build_prefs: the unrated_is_dislike flag is not consulted.
build_prefs_mut(pp, tt, existing, flag) ==
    [c \in pp \X tt |-> IF c \in DOMAIN existing THEN existing[c] ELSE NEUTRAL]

\* existing: the PersonToppingPreference rows found, a function from the
\* rated (person, topping) pairs to their value; flag: unrated_is_dislike
\* of each person.  result[(p, t)] = existing.get(key, default).
build_prefs(pp, tt, existing, flag) ==
    [c \in pp \X tt |->
        LET default == IF flag[c[1]] THEN DISLIKE ELSE NEUTRAL
        IN  IF c \in DOMAIN existing THEN existing[c] ELSE default]

\* ------------------------------------------------------------ solve_whole
\* A whole-mode assignment of the binary variables is a record
\*   x  : person -> set of pizzas k with x[p,k] = 1
\*   tv : pizza  -> set of toppings t with tv[t,k] = 1
\* z[p,t,k] is fixed by the linearisation constraints (z_whole).

\* Mutant of person_once: the constraint written with <= instead of ==.
person_once_mut(row) == Cardinality(row) <= 1

\* Constraint 1, per person: sum_k x[p,k] == 1.
person_once(row) == Cardinality(row) = 1

\* Mutant of allergy_whole: the right-hand side 2 instead of 1.
allergy_whole_mut(s, pp, tt, K, pr) ==
    \A p \in pp : \A t \in tt :
        pr[<<p, t>>] = ALLERGY =>
            \A k \in Range(K) : Bin(k \in s.x[p]) + Bin(t \in s.tv[k]) <= 2

\* Constraint 2: x[p,k] + tv[t,k] <= 1 for every ALLERGY pair and pizza.
allergy_whole(s, pp, tt, K, pr) ==
    \A p \in pp : \A t \in tt :
        pr[<<p, t>>] = ALLERGY =>
            \A k \in Range(K) : Bin(k \in s.x[p]) + Bin(t \in s.tv[k]) <= 1

\* Mutant of topping_cap: the cap off by one.
topping_cap_mut(col) == Cardinality(col) <= ToppingCap + 1

\* Constraint 3, per pizza: sum_t tv[t,k] <= 3.
topping_cap(col) == Cardinality(col) <= ToppingCap

\* Mutant of balanced_whole: the bounds 0 and P instead of lo and hi.
balanced_whole_mut(x, pp, K) ==
    \A k \in Range(K) :
        LET n == Cardinality({p \in pp : k \in x[p]})
        IN  n >= 0 /\ n <= Cardinality(pp)

\* Mutant of balanced_whole: hi = lo, every pizza of exactly P // K people.
balanced_whole_floor_mut(x, pp, K) ==
    \A k \in Range(K) :
        Cardinality({p \in pp : k \in x[p]}) = FloorDiv(Cardinality(pp), K)

\* Constraint 4: lo <= sum_p x[p,k] <= hi with lo = P // K, hi = ceil(P / K).
balanced_whole(x, pp, K) ==
    LET P  == Cardinality(pp)
        lo == FloorDiv(P, K)
        hi == CeilDiv(P, K)
    IN  \A k \in Range(K) :
            LET n == Cardinality({p \in pp : k \in x[p]})
            IN  n >= lo /\ n <= hi

\* Mutant of linearization: the inequality z >= x + t - 1 is left out.
linearization_mut(xv, tvv) == {zv \in {0, 1} : zv <= xv /\ zv <= tvv}

\* Constraint 5: the values of z the three linearisation inequalities allow
\* for given values of x[p,k] and tv[t,k].
linearization(xv, tvv) ==
    {zv \in {0, 1} : zv <= xv /\ zv <= tvv /\ zv >= xv + tvv - 1}

\* z[p,t,k] in a solution, by the values of x[p,k] and tv[t,k].
z_table == [v \in {0, 1} \X {0, 1} |-> CHOOSE zv \in linearization(v[1], v[2]) : TRUE]

z_value(xv, tvv) == z_table[<<xv, tvv>>]

\* All assignments satisfying the hard constraints of solve_whole.
feasible_whole(pp, tt, K, pr) ==
    LET rows == {row \in SUBSET Range(K) : person_once(row)}
        cols == {col \in SUBSET tt : topping_cap(col)}
        XS   == {x \in [pp -> rows] : balanced_whole(x, pp, K)}
    IN  {s \in [x : XS, tv : [Range(K) -> cols]] :
            allergy_whole(s, pp, tt, K, pr)}

\* Mutant of score_whole: a negative preference is not counted (the score
\* sums likes only).
score_whole_mut(s, k, pp, tt, pr) ==
    lpSum([c \in pp \X tt |->
              (IF pr[c] > 0 THEN pr[c] ELSE 0)
                 * z_value(Bin(k \in s.x[c[1]]), Bin(c[2] \in s.tv[k]))],
          pp \X tt)

\* score[k] = sum_{p,t} pref[p,t] * z[p,t,k]
score_whole(s, k, pp, tt, pr) ==
    lpSum([c \in pp \X tt |->
              pr[c] * z_value(Bin(k \in s.x[c[1]]), Bin(c[2] \in s.tv[k]))],
          pp \X tt)

\* Mutant of objective: the max-min objective in every mode.
objective_maxmin_mut(scores, K, mode) == SetMin({scores[k] : k \in Range(K)})

\* Mutant of objective: the score of the first pizza alone.
objective_first_mut(scores, K, mode) == scores[1]

\* Mutant of objective: the total score in every mode.
objective_total_mut(scores, K, mode) == lpSum(scores, Range(K))

\* The objective value of an assignment: in minimize_dislikes the largest M
\* with score[k] >= M for all k, else the sum of the scores.
objective(scores, K, mode) ==
    IF mode = "minimize_dislikes"
    THEN SetMin({scores[k] : k \in Range(K)})
    ELSE lpSum(scores, Range(K))

objective_whole(s, pp, tt, K, pr, mode) ==
    objective([k \in Range(K) |-> score_whole(s, k, pp, tt, pr)], K, mode)

\* prob.status after prob.solve(), for the set F of feasible assignments:
\* Infeasible when there is none; Unbounded when M is maximised under no
\* constraint score[k] >= M (no pizza index); else Optimal, every score
\* being bounded.
engine_status(F, K, mode) ==
    IF F = {} THEN LpStatusInfeasible
    ELSE IF mode = "minimize_dislikes" /\ Range(K) = {} THEN LpStatusUnbounded
    ELSE LpStatusOptimal

\* Mutant of optimal: the problem solved with LpMinimize.
optimal_mut(FO) ==
    LET worst == SetMin({fo[1] : fo \in FO})
    IN  {fo[2] : fo \in {g \in FO : g[1] = worst}}

\* What the engine may return, given the set FO of pairs <<v, s>> of a
\* feasible assignment s and its objective value v: every assignment of
\* maximal objective value.
optimal(FO) ==
    LET best == SetMax({fo[1] : fo \in FO})
    IN  {fo[2] : fo \in {g \in FO : g[1] = best}}

\* The variable values prob.solve() may leave on the whole-mode model with
\* feasible assignments F, when its status is Optimal.
engine_whole(F, pp, tt, K, pr, mode) ==
    optimal({<<objective_whole(s, pp, tt, K, pr, mode), s>> : s \in F})

\* Extraction, iteration k: the OrderedPizza created for pizza k.
extract_whole(s, k, pp, tt) ==
    [people         |-> {p \in pp : 2 * Bin(k \in s.x[p]) > 1},
     left_toppings  |-> {t \in tt : 2 * Bin(t \in s.tv[k]) > 1},
     right_toppings |-> {}]

\* ------------------------------------------------------------- solve_half
\* A half-mode assignment is a tuple <<<<x, ts>>, tl>> with
\*   x           : person -> <<set of k with x_left[p,k] = 1,
\*                             set of k with x_right[p,k] = 1>>
\*   ts.tr       : pizza -> set of toppings with t_right[t,k] = 1
\*   ts.is_split : set of pizzas k with is_split[k] = 1
\*   tl          : pizza -> set of toppings with t_left[t,k] = 1
x_left(s, p, k) == Bin(k \in s[1][1][p][1])

x_right(s, p, k) == Bin(k \in s[1][1][p][2])

t_left(s, t, k) == Bin(t \in s[2][k])

t_right(s, t, k) == Bin(t \in s[1][2].tr[k])

is_split(s, k) == Bin(k \in s[1][2].is_split)

\* Constraint 1, per person: sum_k (x_left[p,k] + x_right[p,k]) == 1.
person_once_half(row) == Cardinality(row[1]) + Cardinality(row[2]) = 1

\* Constraint 2, people: x_right[p,k] <= is_split[k].
xr_le_split(x, split, pp, K) ==
    \A k \in Range(K) : \A p \in pp :
        Bin(k \in x[p][2]) <= Bin(k \in split)

\* Constraint 2, toppings: t_right[t,k] <= is_split[k].
tr_le_split(tr, split, tt, K) ==
    \A k \in Range(K) : \A t \in tt :
        Bin(t \in tr[k]) <= Bin(k \in split)

\* Constraint 3: for every ALLERGY pair and pizza,
\* x_left[p,k] + t_left[t,k] <= 1 and x_right[p,k] + t_right[t,k] <= 1.
allergy_half(s, pp, tt, K, pr) ==
    \A p \in pp : \A t \in tt :
        pr[<<p, t>>] = ALLERGY =>
            \A k \in Range(K) :
                /\ x_left(s, p, k) + t_left(s, t, k) <= 1
                /\ x_right(s, p, k) + t_right(s, t, k) <= 1

\* Constraint 4, per half: sum_t t_left[t,k] <= 3, sum_t t_right[t,k] <= 3.
topping_cap_half(col) == Cardinality(col) <= ToppingCap

\* Mutant of balanced_half: the bounds 0 and P instead of lo and hi.
balanced_half_mut(x, pp, K) ==
    \A k \in Range(K) :
        LET total == Cardinality({p \in pp : k \in x[p][1]})
                     + Cardinality({p \in pp : k \in x[p][2]})
        IN  total >= 0 /\ total <= Cardinality(pp)

\* Constraint 5: lo <= sum_p (x_left[p,k] + x_right[p,k]) <= hi.
balanced_half(x, pp, K) ==
    LET P  == Cardinality(pp)
        lo == FloorDiv(P, K)
        hi == CeilDiv(P, K)
    IN  \A k \in Range(K) :
            LET total == Cardinality({p \in pp : k \in x[p][1]})
                         + Cardinality({p \in pp : k \in x[p][2]})
            IN  total >= lo /\ total <= hi

\* Constraint 6: the values of z_left (z_right) the three inequalities allow.
linearization_half(xv, tvv) ==
    {zv \in {0, 1} : zv <= xv /\ zv <= tvv /\ zv >= xv + tvv - 1}

z_table_half ==
    [v \in {0, 1} \X {0, 1} |-> CHOOSE zv \in linearization_half(v[1], v[2]) : TRUE]

z_value_half(xv, tvv) == z_table_half[<<xv, tvv>>]

\* All assignments satisfying the hard constraints of solve_half.
feasible_half(pp, tt, K, pr) ==
    LET rows == {row \in (SUBSET Range(K)) \X (SUBSET Range(K)) :
                    person_once_half(row)}
        cols == {col \in SUBSET tt : topping_cap_half(col)}
        XS   == {x \in [pp -> rows] : balanced_half(x, pp, K)}
        TS   == {ts \in [tr : [Range(K) -> cols], is_split : SUBSET Range(K)] :
                    tr_le_split(ts.tr, ts.is_split, tt, K)}
        XTS  == {xts \in XS \X TS : xr_le_split(xts[1], xts[2].is_split, pp, K)}
    IN  {s \in XTS \X [Range(K) -> cols] : allergy_half(s, pp, tt, K, pr)}

\* score[k] = sum_{p,t} pref[p,t] * (z_left + z_right) + 2 * (1 - is_split[k])
score_half(s, k, pp, tt, pr) ==
    lpSum([c \in pp \X tt |->
              pr[c] * (z_value_half(x_left(s, c[1], k), t_left(s, c[2], k))
                       + z_value_half(x_right(s, c[1], k), t_right(s, c[2], k)))],
          pp \X tt)
    + NoSplitBonus * (1 - is_split(s, k))

objective_half(s, pp, tt, K, pr, mode) ==
    objective([k \in Range(K) |-> score_half(s, k, pp, tt, pr)], K, mode)

\* The variable values prob.solve() may leave on the half-mode model with
\* feasible assignments F, when its status is Optimal.
engine_half(F, pp, tt, K, pr, mode) ==
    optimal({<<objective_half(s, pp, tt, K, pr, mode), s>> : s \in F})

\* Extraction, iteration k: people.set(left_people + right_people).
extract_half(s, k, pp, tt) ==
    [people         |-> {p \in pp : 2 * x_left(s, p, k) > 1}
                        \cup {p \in pp : 2 * x_right(s, p, k) > 1},
     left_toppings  |-> {t \in tt : 2 * t_left(s, t, k) > 1},
     right_toppings |-> {t \in tt : 2 * t_right(s, t, k) > 1}]

\* ------------------------------------------------------------------ inputs
\* num_pizzas is an IntegerField: zero and negative values are storable.
NumPizzasChoices == (0 - 1) .. MaxPizzas

PizzaModes == {"whole", "half"}

OptimizationModes == {"maximize_likes", "minimize_dislikes"}

\* Shareability weights tried, in tenths: 0 and 0.8.
ShareabilityChoices == {0, 8}

\* The PersonToppingPreference tables and unrated_is_dislike flags that
\* _build_prefs may find for the given people and toppings.
PreferenceChoices == {ALLERGY, DISLIKE, NEUTRAL, LIKE}

ExistingChoices(pp, tt) ==
    UNION {[rated -> PreferenceChoices] : rated \in SUBSET (pp \X tt)}

FlagChoices(pp) == [pp -> BOOLEAN]

\* The number of variables x, tv (whole) or x_left, x_right, t_left, t_right,
\* is_split (half) of the model for P people, T toppings and K pizzas.
NumVars(mode, P, T, K) ==
    IF mode = "half" THEN K * (2 * P + 2 * T + 1) ELSE K * (P + T)

\* The value of the variables that are not yet set.
None == <<>>

\* An order about to be solved, of at most `cells` (person, topping) pairs:
\* a saved order whose people M2M is populated (create_order always adds
\* the host), and no pizza yet.
new_order(cells) ==
    /\ \E P \in 1 .. MaxPeople : \E T \in 0 .. MaxToppings :
          /\ P * T <= cells
          /\ people = 1 .. P
          /\ toppings = 1 .. T
          /\ num_pizzas \in NumPizzasChoices
          /\ pizza_mode \in PizzaModes
          /\ NumVars(pizza_mode, P, T, num_pizzas) <= MaxVars
    /\ optimization_mode \in OptimizationModes
    /\ shareability_bonus_weight \in ShareabilityChoices
    /\ prefs = None
    /\ pc = "solve"
    /\ model_built = FALSE
    /\ engine_calls = 0
    /\ status = 0
    /\ solution = None
    /\ pizzas = <<>>
    /\ error = "none"

\* No create_order request, no grouping search, no guest or staff request
\* answered: the state of everything a run of solve() alone leaves aside.
nothing_elsewhere ==
    /\ already_solved = FALSE
    /\ merged = None
    /\ persons = {}
    /\ orders = None
    /\ ordered_pizzas = <<>>
    /\ last_order_id = 0
    /\ requests = None
    /\ lst = <<>>
    /\ num_groups = 0
    /\ groupsets = <<>>
    /\ loop_index = 0

\* The state when solve(order) is called.  The stored rows are left out of
\* the state (None): _build_prefs may find any rows and flags.
Init ==
    /\ new_order(MaxCells)
    /\ nothing_elsewhere
    /\ topping_preferences = None
    /\ unrated_is_dislike = None
    /\ guests = {}

\* The rows and flags _build_prefs may read: the stored ones when the state
\* holds them, any otherwise.
StoredChoices ==
    IF unrated_is_dislike = None
    THEN ExistingChoices(people, toppings) \X FlagChoices(people)
    ELSE {<<topping_preferences, unrated_is_dislike>>}

\* ----------------------------------------------------------------- solve()
\* num_people = order.people.count()
num_people == Cardinality(people)

\* Mutant of too_many_pizzas: the comparison off by one.
too_many_pizzas_mut(K, P) == K > P + 1

\* Mutant of division_by_zero: a further division, by K - 1.
division_by_zero_mut(K) == K = 0 \/ K - 1 = 0

\* The validation of solve(): order.num_pizzas > num_people.
too_many_pizzas(K, P) == K > P

\* The only division of solve_whole / solve_half, lo, hi = P // K,
\* math.ceil(P / K), raises ZeroDivisionError exactly when K is 0.
division_by_zero(K) == K = 0

\* num_pizzas > num_people: raise ValueError.
solve_reject ==
    /\ pc = "solve"
    /\ too_many_pizzas(num_pizzas, num_people)
    /\ pc' = "raised"
    /\ error' = "ValueError"
    /\ UNCHANGED <<elsewhere, order, db, prefs, model_built, engine_calls, status, solution,
                   pizzas>>

\* Otherwise dispatch on order.pizza_mode.
solve_dispatch ==
    /\ pc = "solve"
    /\ ~too_many_pizzas(num_pizzas, num_people)
    /\ pc' = IF pizza_mode = "half" THEN "solve_half" ELSE "solve_whole"
    /\ UNCHANGED <<elsewhere, order, db, prefs, model_built, engine_calls, status, solution,
                   pizzas, error>>

\* solve_whole, lines 102-108: read people and toppings, resolve preferences.
solve_whole_prefs ==
    /\ pc = "solve_whole"
    /\ \E rows \in StoredChoices :
          prefs' = build_prefs(people, toppings, rows[1], rows[2])
    /\ pc' = "whole_model"
    /\ UNCHANGED <<elsewhere, order, db, model_built, engine_calls, status, solution, pizzas,
                   error>>

\* solve_whole, lines 110-174: build the model (P // K raises for K = 0),
\* call the engine, raise ValueError unless the status is Optimal.
solve_whole_model ==
    /\ pc = "whole_model"
    /\ model_built' = TRUE
    /\ IF division_by_zero(num_pizzas)
       THEN /\ pc' = "raised"
            /\ error' = "ZeroDivisionError"
            /\ UNCHANGED <<engine_calls, status, solution>>
       ELSE /\ engine_calls' = engine_calls + 1
            /\ LET F == feasible_whole(people, toppings, num_pizzas, prefs)
               IN  /\ status' = engine_status(F, num_pizzas, optimization_mode)
                   /\ IF status' # LpStatusOptimal
                      THEN /\ pc' = "raised"
                           /\ error' = "ValueError"
                           /\ UNCHANGED solution
                      ELSE /\ solution' \in engine_whole(F, people, toppings,
                                  num_pizzas, prefs, optimization_mode)
                           /\ pc' = "whole_extract"
                           /\ UNCHANGED error
    /\ UNCHANGED <<elsewhere, order, db, prefs, pizzas>>

\* solve_whole, lines 178-184: one iteration of the extraction loop.
solve_whole_extract ==
    /\ pc = "whole_extract"
    /\ Len(pizzas) < num_pizzas
    /\ pizzas' = Append(pizzas, extract_whole(solution, Len(pizzas) + 1,
                                              people, toppings))
    /\ UNCHANGED <<elsewhere, order, db, prefs, pc, model_built, engine_calls, status,
                   solution, error>>

\* Mutant of solve_whole_return: the loop runs over range(K - 1).
solve_whole_return_mut ==
    /\ pc = "whole_extract"
    /\ ~(Len(pizzas) < num_pizzas - 1)
    /\ pc' = "returned"
    /\ UNCHANGED <<elsewhere, order, db, prefs, model_built, engine_calls, status, solution,
                   pizzas, error>>

\* solve_whole, line 186: return result.
solve_whole_return ==
    /\ pc = "whole_extract"
    /\ ~(Len(pizzas) < num_pizzas)
    /\ pc' = "returned"
    /\ UNCHANGED <<elsewhere, order, db, prefs, model_built, engine_calls, status, solution,
                   pizzas, error>>

\* solve_half, lines 195-201.
solve_half_prefs ==
    /\ pc = "solve_half"
    /\ \E rows \in StoredChoices :
          prefs' = build_prefs(people, toppings, rows[1], rows[2])
    /\ pc' = "half_model"
    /\ UNCHANGED <<elsewhere, order, db, model_built, engine_calls, status, solution, pizzas,
                   error>>

\* solve_half, lines 203-287.
solve_half_model ==
    /\ pc = "half_model"
    /\ model_built' = TRUE
    /\ IF division_by_zero(num_pizzas)
       THEN /\ pc' = "raised"
            /\ error' = "ZeroDivisionError"
            /\ UNCHANGED <<engine_calls, status, solution>>
       ELSE /\ engine_calls' = engine_calls + 1
            /\ LET F == feasible_half(people, toppings, num_pizzas, prefs)
               IN  /\ status' = engine_status(F, num_pizzas, optimization_mode)
                   /\ IF status' # LpStatusOptimal
                      THEN /\ pc' = "raised"
                           /\ error' = "ValueError"
                           /\ UNCHANGED solution
                      ELSE /\ solution' \in engine_half(F, people, toppings,
                                  num_pizzas, prefs, optimization_mode)
                           /\ pc' = "half_extract"
                           /\ UNCHANGED error
    /\ UNCHANGED <<elsewhere, order, db, prefs, pizzas>>

\* solve_half, lines 291-299: one iteration of the extraction loop.
solve_half_extract ==
    /\ pc = "half_extract"
    /\ Len(pizzas) < num_pizzas
    /\ pizzas' = Append(pizzas, extract_half(solution, Len(pizzas) + 1,
                                             people, toppings))
    /\ UNCHANGED <<elsewhere, order, db, prefs, pc, model_built, engine_calls, status,
                   solution, error>>

\* solve_half, line 301: return result.
solve_half_return ==
    /\ pc = "half_extract"
    /\ ~(Len(pizzas) < num_pizzas)
    /\ pc' = "returned"
    /\ UNCHANGED <<elsewhere, order, db, prefs, model_built, engine_calls, status, solution,
                   pizzas, error>>

\* ------------------------------------------------- requests before solve
\* The strings a request may post in a pref_<topping> field: the four level
\* names profile_edit knows, an integer that is a level and one that is not.
PostedValues == {"allergy", "dislike", "neutral", "like", "-2", "7"}

\* int(val) for the posted strings that are integers.
int_value == ("-2" :> (0 - 2) @@ "7" :> 7)

\* order_join: pref_val = int(val), 0 on ValueError.
pref_val(val) == IF val \in DOMAIN int_value THEN int_value[val] ELSE 0

\* profile_edit: new_prefs, the toppings whose posted string names a level.
new_prefs(posted) ==
    LET level == ("allergy" :> ALLERGY @@ "dislike" :> DISLIKE @@
                  "neutral" :> NEUTRAL @@ "like" :> LIKE)
    IN  [t \in {u \in DOMAIN posted : posted[u] \in DOMAIN level} |->
            level[posted[t]]]

\* The table after the rows of person p are replaced by `row` (a function
\* from toppings to values): the rows of p on other toppings are deleted.
replace_rows(table, p, row) ==
    [c \in {d \in DOMAIN table : d[1] # p} \cup {<<p, t>> : t \in DOMAIN row}
        |-> IF c[1] = p THEN row[c[2]] ELSE table[c]]

\* profile_edit, POST with a valid form: the person's flag is saved, the
\* rows of the toppings without a level are deleted, the others upserted.
profile_edit ==
    /\ pc = "solve"
    /\ unrated_is_dislike # None
    /\ \E person \in people \ guests : \E flag \in BOOLEAN :
       \E posted \in [toppings -> PostedValues] :
          /\ unrated_is_dislike' = [unrated_is_dislike EXCEPT ![person] = flag]
          /\ topping_preferences' =
                 replace_rows(topping_preferences, person, new_prefs(posted))
    /\ UNCHANGED <<elsewhere, order, guests, prefs, pc, model_built,
                   engine_calls, status, solution, pizzas, error>>

\* order_join past the already_solved check: a guest known to the session
\* has a row upserted for every topping; otherwise a guest with a name is
\* created, added to order.people and given a row per topping.
join_writes ==
    /\ already_solved' = FALSE
    /\ \E posted \in [toppings -> PostedValues] :
          LET row == [t \in toppings |-> pref_val(posted[t])]
          IN  \/ \E guest \in guests :
                    /\ topping_preferences' =
                           replace_rows(topping_preferences, guest, row)
                    /\ UNCHANGED <<people, unrated_is_dislike, guests>>
              \/ LET guest == num_people + 1
                  IN  /\ guest <= MaxPeople
                      /\ guest * Cardinality(toppings) <= MaxWebCells
                      /\ NumVars(pizza_mode, guest, Cardinality(toppings),
                                 num_pizzas) <= MaxVars
                      /\ people' = people \cup {guest}
                      /\ guests' = guests \cup {guest}
                      /\ unrated_is_dislike' =
                             [p \in people' |->
                                 IF p = guest THEN FALSE
                                 ELSE unrated_is_dislike[p]]
                      /\ topping_preferences' =
                             replace_rows(topping_preferences, guest, row)

\* Mutant of order_join: the already_solved return is left out.
order_join_mut ==
    /\ pc \in {"solve", "returned"}
    /\ unrated_is_dislike # None
    /\ join_writes
    /\ UNCHANGED <<merged, site, search, toppings, num_pizzas, pizza_mode,
                   optimization_mode, shareability_bonus_weight, prefs, pc,
                   model_built, engine_calls, status, solution, pizzas, error>>

\* order_join, POST, before solve() is called on the order or after it has
\* returned.  When the order has a pizza the already_solved page is
\* rendered and nothing is written.
order_join ==
    /\ pc \in {"solve", "returned"}
    /\ unrated_is_dislike # None
    /\ IF pizzas # <<>>
       THEN /\ already_solved' = TRUE
            /\ UNCHANGED <<people, db>>
       ELSE join_writes
    /\ UNCHANGED <<merged, site, search, toppings, num_pizzas, pizza_mode,
                   optimization_mode, shareability_bonus_weight, prefs, pc,
                   model_built, engine_calls, status, solution, pizzas, error>>

Next ==
    \/ solve_reject
    \/ solve_dispatch
    \/ solve_whole_prefs
    \/ solve_whole_model
    \/ solve_whole_extract
    \/ solve_whole_return
    \/ solve_half_prefs
    \/ solve_half_model
    \/ solve_half_extract
    \/ solve_half_return

Spec == Init /\ [][Next]_vars

\* solve(order) on the orders of whole pizzas, the formulation of
\* solve_whole alone.
WholeInit ==
    /\ new_order(MaxCells)
    /\ nothing_elsewhere
    /\ pizza_mode = "whole"
    /\ NumVars(pizza_mode, num_people, Cardinality(toppings), num_pizzas)
          <= MaxWholeVars
    /\ topping_preferences = None
    /\ unrated_is_dislike = None
    /\ guests = {}

WholeNext ==
    \/ solve_reject
    \/ solve_dispatch
    \/ solve_whole_prefs
    \/ solve_whole_model
    \/ solve_whole_extract
    \/ solve_whole_return

WholeSpec == WholeInit /\ [][WholeNext]_vars

\* An order whose people have not rated anything yet, the stored rows being
\* part of the state.
WebInit ==
    /\ new_order(MaxWebCells)
    /\ nothing_elsewhere
    /\ topping_preferences = <<>>
    /\ unrated_is_dislike = [p \in people |-> FALSE]
    /\ guests = {}

WebNext ==
    \/ profile_edit
    \/ order_join
    \/ Next

\* The requests that write preferences, then solve(order) on what they stored.
WebSpec == WebInit /\ [][WebNext]_vars

\* solve(order) on the orders with 1 <= num_pizzas <= number of people, the
\* orders solve() does not reject.
ValidInit ==
    /\ Init
    /\ 1 <= num_pizzas
    /\ num_pizzas <= num_people

ValidNext ==
    \/ solve_dispatch
    \/ solve_whole_prefs
    \/ solve_whole_model
    \/ solve_whole_extract
    \/ solve_whole_return
    \/ solve_half_prefs
    \/ solve_half_model
    \/ solve_half_extract
    \/ solve_half_return

ValidSpec == ValidInit /\ [][ValidNext]_vars

\* ---------------------------------------------------------- topping_merge
\* The PersonToppingPreference table after the loop of topping_merge and the
\* final topping.delete(): a row of the source topping is deleted when its
\* person has a row on the target, and re-pointed to the target otherwise.
merge_rows(table, topping, target) ==
    [c \in {d \in DOMAIN table : d[2] # topping}
           \cup {<<d[1], target>> : d \in {e \in DOMAIN table : e[2] = topping}}
        |-> IF c \in DOMAIN table THEN table[c] ELSE table[<<c[1], topping>>]]

\* pizza.toppings.add(target); pizza.toppings.remove(topping), on the
\* toppings of a pizza that carries the source topping.
merge_on_pizza(on_pizza, topping, target) ==
    IF topping \in on_pizza THEN (on_pizza \ {topping}) \cup {target}
    ELSE on_pizza

\* topping_merge, POST by a staff user with a valid form: one topping of the
\* restaurant is merged into another one.  The restaurant has both, so the
\* source's RestaurantTopping row is deleted; the pizzas carrying the source
\* carry the target instead; the source topping is deleted.
topping_merge ==
    /\ pc \in {"solve", "returned"}
    /\ unrated_is_dislike # None
    /\ \E topping \in toppings : \E target \in toppings \ {topping} :
          /\ topping_preferences' =
                 merge_rows(topping_preferences, topping, target)
          /\ toppings' = toppings \ {topping}
          /\ pizzas' = [i \in DOMAIN pizzas |->
                 [pizzas[i] EXCEPT
                     !.left_toppings = merge_on_pizza(@, topping, target),
                     !.right_toppings = merge_on_pizza(@, topping, target)]]
          /\ merged' = <<topping, target>>
    /\ UNCHANGED <<already_solved, site, search, people, num_pizzas,
                   pizza_mode, optimization_mode, shareability_bonus_weight,
                   unrated_is_dislike, guests, prefs, pc, model_built,
                   engine_calls, status, solution, error>>

MergeNext ==
    \/ profile_edit
    \/ topping_merge
    \/ Next

\* People rate the toppings, a staff user merges toppings, and solve() runs
\* on the order.
MergeSpec == WebInit /\ [][MergeNext]_vars

\* ----------------------------------------------------------- create_order
\* The variables of a call of solve() on the single order of Spec, at rest:
\* the runs below keep their orders in the tables of `site`.
solver_at_rest ==
    /\ people = {}
    /\ toppings = {}
    /\ num_pizzas = 0
    /\ pizza_mode = "whole"
    /\ optimization_mode = "maximize_likes"
    /\ shareability_bonus_weight = 0
    /\ prefs = None
    /\ pc = "idle"
    /\ model_built = FALSE
    /\ engine_calls = 0
    /\ status = 0
    /\ solution = None
    /\ pizzas = <<>>
    /\ error = "none"
    /\ topping_preferences = None
    /\ unrated_is_dislike = None
    /\ guests = {}

solver_vars == <<order, db, prefs, pc, model_built, engine_calls, status,
                 solution, pizzas, error>>

\* The logged-in user, host of every order, and the other members of the
\* host's group.
host == "alice"

Members == {"bob", "carol"}

\* The POST requests of the order form that ask to generate the order.
Requests == {"r1", "r2"}

\* The num_pizzas values posted: from 0, below the field's min_value, to one
\* more than the largest number of pizzas solved.
FormPizzaChoices == 0 .. (MaxPizzas + 1)

\* proto_order = None, and the pk no order has.
NoOrder == 0

\* A request that has not been handled yet.
new_request ==
    [pc |-> "new", proto_order |-> NoOrder, target |-> NoOrder,
     data |-> [people |-> {}, num_pizzas |-> 0, optimization_mode |-> "none"],
     num_pizzas |-> 0, form_error |-> "none", raised |-> "none"]

\* Mutant of clean: the comparison with effective_count is left out.
clean_mut(data) ==
    IF data.num_pizzas < 1
    THEN "Ensure this value is greater than or equal to 1."
    ELSE "none"

\* form.is_valid(): the first error of the posted data, "none" without one.
\* num_pizzas has min_value = 1; clean() compares it with the number of
\* distinct selected people plus the host.  (The people offered by the form
\* are members of the group, so the membership error cannot occur.)
clean(data) ==
    LET effective_count == Cardinality(data.people \cup {host})
    IN  IF data.num_pizzas < 1
        THEN "Ensure this value is greater than or equal to 1."
        ELSE IF data.num_pizzas > effective_count
        THEN "Cannot have more pizzas than people."
        ELSE "none"

\* order.pizzas.exists()
pizzas_exist(o) == \E i \in DOMAIN ordered_pizzas : ordered_pizzas[i].order = o

\* create_order, lines 143-154: the proto-order named by the request, None
\* when there is no such invite order of the host or it has a pizza.
load_proto_order(proto_order_id) ==
    IF /\ proto_order_id \in DOMAIN orders
       /\ orders[proto_order_id].invite_token
       /\ ~pizzas_exist(proto_order_id)
    THEN proto_order_id
    ELSE NoOrder

\* Order.objects.create(...) / order.delete() on the Order table.
insert_order(id, row) == orders @@ (id :> row)

delete_order(id) == [o \in DOMAIN orders \ {id} |-> orders[o]]

\* create_order, POST with invite_guests: a proto-order of one pizza is
\* created for the host alone.  One invite order is made per run.
create_order_invite_guests ==
    /\ \A o \in DOMAIN orders : ~orders[o].invite_token
    /\ last_order_id' = last_order_id + 1
    /\ orders' = insert_order(last_order_id',
                     [num_pizzas |-> 1, optimization_mode |-> "maximize_likes",
                      people |-> {host}, invite_token |-> TRUE])
    /\ UNCHANGED <<persons, ordered_pizzas, requests, search, already_solved,
                   merged, solver_vars>>

\* create_order, POST to generate, lines 120-202: the proto-order is loaded
\* (and dropped if it has a pizza), the form validated, and on a valid form
\* the proto-order updated or a new order created, with its people set.
create_order_post(r) ==
    /\ requests[r].pc = "new"
    /\ \E proto_order_id \in {NoOrder} \cup DOMAIN orders :
       \E data \in [people : SUBSET (persons \ {host}),
                    num_pizzas : FormPizzaChoices,
                    optimization_mode : OptimizationModes] :
          LET proto_order == load_proto_order(proto_order_id)
              form_error  == clean(data)
              row == [num_pizzas |-> data.num_pizzas,
                      optimization_mode |-> data.optimization_mode,
                      people |-> data.people \cup {host}]
              seen == [requests[r] EXCEPT !.proto_order = proto_order,
                                          !.data = data,
                                          !.form_error = form_error]
          IN  IF form_error # "none"
              THEN /\ requests' = [requests EXCEPT ![r] =
                                      [seen EXCEPT !.pc = "done"]]
                   /\ UNCHANGED <<orders, last_order_id>>
              ELSE IF proto_order # NoOrder
              THEN /\ orders' = [orders EXCEPT ![proto_order] =
                                    row @@ [invite_token |-> TRUE]]
                   /\ requests' = [requests EXCEPT ![r] =
                                      [seen EXCEPT !.pc = "solve",
                                                   !.target = proto_order,
                                                   !.num_pizzas = data.num_pizzas]]
                   /\ UNCHANGED last_order_id
              ELSE /\ last_order_id' = last_order_id + 1
                   /\ orders' = insert_order(last_order_id',
                                    row @@ [invite_token |-> FALSE])
                   /\ requests' = [requests EXCEPT ![r] =
                                      [seen EXCEPT !.pc = "solve",
                                                   !.target = last_order_id',
                                                   !.num_pizzas = data.num_pizzas]]
    /\ UNCHANGED <<persons, ordered_pizzas, search, already_solved, merged,
                   solver_vars>>

\* create_order, lines 204-220: solve(target_order), on an order of whole
\* pizzas from a restaurant without toppings.  solve() compares the
\* num_pizzas of the request's Order object with the stored people, builds
\* the model and creates the pizzas; on ValueError an order the request
\* created is deleted (with its pizzas), a proto-order is kept.
create_order_solve(r) ==
    /\ requests[r].pc = "solve"
    /\ LET target == requests[r].target
           K      == requests[r].num_pizzas
           pp     == orders[target].people
           mode   == requests[r].data.optimization_mode
           F      == feasible_whole(pp, {}, K, None)
           failed == \/ too_many_pizzas(K, Cardinality(pp))
                     \/ engine_status(F, K, mode) # LpStatusOptimal
       IN  IF failed
           THEN /\ requests' = [requests EXCEPT ![r] =
                                   [@ EXCEPT !.pc = "done",
                                             !.raised = "ValueError"]]
                /\ IF requests[r].proto_order = NoOrder
                   THEN /\ orders' = delete_order(target)
                        /\ ordered_pizzas' =
                               SelectSeq(ordered_pizzas,
                                         LAMBDA row : row.order # target)
                   ELSE UNCHANGED <<orders, ordered_pizzas>>
           ELSE /\ \E s \in engine_whole(F, pp, {}, K, None, mode) :
                      ordered_pizzas' = ordered_pizzas \o
                          [k \in Range(K) |->
                              [order  |-> target,
                               people |-> extract_whole(s, k, pp, {}).people]]
                /\ requests' = [requests EXCEPT ![r] = [@ EXCEPT !.pc = "done"]]
                /\ UNCHANGED orders
    /\ UNCHANGED <<persons, last_order_id, search, already_solved, merged,
                   solver_vars>>

\* The admin site deletes a Person other than the host: the person's rows
\* in order.people and in pizza.people go with it.
admin_delete_person ==
    /\ \E person \in persons \ {host} :
          /\ persons' = persons \ {person}
          /\ orders' = [o \in DOMAIN orders |->
                           [orders[o] EXCEPT !.people = @ \ {person}]]
          /\ ordered_pizzas' = [i \in DOMAIN ordered_pizzas |->
                                   [ordered_pizzas[i] EXCEPT
                                       !.people = @ \ {person}]]
    /\ UNCHANGED <<last_order_id, requests, search, already_solved, merged,
                   solver_vars>>

\* The host and the group's members exist, no order does, and the requests
\* are still to come.
OrderInit ==
    /\ solver_at_rest
    /\ already_solved = FALSE
    /\ merged = None
    /\ persons = {host} \cup Members
    /\ orders = None
    /\ ordered_pizzas = <<>>
    /\ last_order_id = 0
    /\ requests = [r \in Requests |-> new_request]
    /\ lst = <<>>
    /\ num_groups = 0
    /\ groupsets = <<>>
    /\ loop_index = 0

OrderNext ==
    \/ create_order_invite_guests
    \/ \E r \in Requests : create_order_post(r)
    \/ \E r \in Requests : create_order_solve(r)
    \/ admin_delete_person

\* Requests to create_order handled by concurrent workers: the steps of two
\* generate requests interleave with each other and with a deletion.
OrderSpec == OrderInit /\ [][OrderNext]_vars

\* ------------------------------------------------- pizza.py: get_groups
\* a_list[j] in Python, j counted from 0, a negative j from the end.
item(a_list, j) ==
    IF j >= 0 THEN a_list[j + 1] ELSE a_list[Len(a_list) + j + 1]

\* a_list.index(value): the first position (from 0) holding value.
index(a_list, value) ==
    CHOOSE i \in 0 .. Len(a_list) - 1 :
        /\ a_list[i + 1] = value
        /\ \A j \in 0 .. i - 1 : a_list[j + 1] # value

\* a_list after a_list.remove(value): without the first occurrence.
remove(a_list, value) ==
    LET i == index(a_list, value) + 1
    IN  SubSeq(a_list, 1, i - 1) \o SubSeq(a_list, i + 1, Len(a_list))

\* a_list after a_list.insert(j, value), j >= 0: past the end it appends.
insert(a_list, j, value) ==
    LET at == IF j > Len(a_list) THEN Len(a_list) ELSE j
    IN  SubSeq(a_list, 1, at) \o <<value>> \o SubSeq(a_list, at + 1, Len(a_list))

RECURSIVE sorted_reverse(_)
\* sorted(a_list, reverse=True)
sorted_reverse(a_list) ==
    IF a_list = <<>> THEN <<>>
    ELSE LET largest == SetMax({a_list[i] : i \in DOMAIN a_list})
         IN  <<largest>> \o sorted_reverse(remove(a_list, largest))

RECURSIVE get_groups_helper(_, _, _, _, _)
RECURSIVE helper_loop(_, _, _, _, _, _, _)
\* The generator get_groups_helper run to its end: the lists it yields, in
\* order, and the shared list `group` as the run leaves it.
get_groups_helper(nums, group, curr_index, n_people, group_size) ==
    IF nums = <<>>
    THEN [yielded |-> <<group>>, group |-> group]
    ELSE LET at == IF item(group, curr_index) # Blank
                   THEN index(group, Blank)
                   ELSE curr_index
         IN  helper_loop(nums, 1, group, at, n_people, group_size, <<>>)

\* The `for num in nums` loop of get_groups_helper from its i-th item on
\* (both branches of the code differ only in the place compared with: the
\* first of the previous group at the start of a group, the previous place
\* otherwise).  The first num that does not fit ends the generator.
helper_loop(nums, i, group, at, n_people, group_size, yielded) ==
    IF i > Len(nums)
    THEN [yielded |-> yielded, group |-> [group EXCEPT ![at + 1] = Blank]]
    ELSE LET num    == nums[i]
             before == IF at % group_size = 0
                       THEN item(group, at - group_size)
                       ELSE item(group, at - 1)
         IN  IF num > before
             THEN LET inner == get_groups_helper(
                                   remove(nums, num),
                                   [group EXCEPT ![at + 1] = num],
                                   (at + 1) % n_people, n_people, group_size)
                  IN  helper_loop(nums, i + 1, inner.group, at, n_people,
                                  group_size, yielded \o inner.yielded)
             ELSE [yielded |-> yielded,
                   group |-> [group EXCEPT ![at + 1] = Blank]]

RECURSIVE add_spacers(_, _, _, _)
\* for i in range(num_leftovers):
\*     starting_group.insert(((i + 1) * group_size) - 1, -2), from i on.
add_spacers(group, i, num_leftovers, group_size) ==
    IF i >= num_leftovers THEN group
    ELSE add_spacers(insert(group, ((i + 1) * group_size) - 1, Spacer),
                     i + 1, num_leftovers, group_size)

\* One result regrouped: slices of group_size places made tuples, the
\* spacers removed.
regroup(result, group_size) ==
    [g \in 1 .. ((Len(result) + group_size - 1) \div group_size) |->
        LET last == IF g * group_size > Len(result) THEN Len(result)
                    ELSE g * group_size
        IN  SelectSeq(SubSeq(result, (g - 1) * group_size + 1, last),
                      LAMBDA x : x # Spacer)]

\* get_groups(lst, p), for a list of distinct people and 1 <= p <= len(lst):
\* the groupings the generator yields, in order.
get_groups(a_list, p) ==
    LET n              == Len(a_list)
        group_size     == CeilDiv(n, p)
        smallest       == SetMin({a_list[i] : i \in DOMAIN a_list})
        num_leftovers  == (group_size * p) - n
        starting_group == add_spacers(<<smallest>> \o [i \in 1 .. n - 1 |-> Blank],
                                      0, num_leftovers, group_size)
        new_lst        == SubSeq(sorted_reverse(a_list), 1, n - 1)
        results        == get_groups_helper(new_lst, starting_group, 1, n,
                                            group_size).yielded
    IN  [r \in DOMAIN results |-> regroup(results[r], group_size)]

\* The people a search may be about: column numbers of the sheet.
GroupPeople == 0 .. (MaxGroupPeople - 1)

\* The lists of distinct people.
PeopleLists ==
    UNION {{a_list \in [1 .. n -> GroupPeople] :
               \A i \in 1 .. n : \A j \in 1 .. n :
                  a_list[i] = a_list[j] => i = j} : n \in 1 .. MaxGroupPeople}

\* get_best_pizzas is called with a list of people and a number of pizzas.
GroupsInit ==
    /\ solver_at_rest
    /\ already_solved = FALSE
    /\ merged = None
    /\ persons = {}
    /\ orders = None
    /\ ordered_pizzas = <<>>
    /\ last_order_id = 0
    /\ requests = None
    /\ lst \in PeopleLists
    /\ num_groups \in 1 .. Len(lst)
    /\ groupsets = <<>>
    /\ loop_index = 0

\* get_best_pizzas, lines 166-171: one iteration of the search loop takes
\* the next grouping from the generator, unless the loop breaks at the
\* cut-off.
get_best_pizzas_step ==
    /\ lst # <<>>
    /\ loop_index < Len(get_groups(lst, num_groups))
    /\ loop_index' = loop_index + 1
    /\ loop_index' # LoopCutOff
    /\ groupsets' = Append(groupsets, get_groups(lst, num_groups)[loop_index'])
    /\ UNCHANGED <<lst, num_groups, site, already_solved, merged, solver_vars>>

GroupsNext == get_best_pizzas_step

\* The search loop of get_best_pizzas over the groupings of get_groups.
GroupsSpec == GroupsInit /\ [][GroupsNext]_vars

\* ================================================================= claims
\* The toppings carried by a pizza, on either half.
pizza_toppings(pizza) == pizza.left_toppings \cup pizza.right_toppings

\* Person p marked ALLERGY on topping t (only a stored row can say so).
allergic(p, t) == prefs[<<p, t>>] = ALLERGY

\* The number of pizzas person p is on.
times_assigned(p) == Cardinality({i \in DOMAIN pizzas : p \in pizzas[i].people})

\* C1: when solve() has returned (either pizza mode, either optimization
\* mode), the people sets of the returned pizzas partition order.people:
\* every person of the order is on exactly one pizza, and nobody else is.
C1_PeoplePartitioned ==
    pc = "returned" =>
        /\ \A p \in people : times_assigned(p) = 1
        /\ \A i \in DOMAIN pizzas : pizzas[i].people \subseteq people

\* C1 witness: a returned half-mode solve of three people on two pizzas.
C1_Witness ==
    /\ pc = "returned"
    /\ pizza_mode = "half"
    /\ num_people = 3
    /\ num_pizzas = 2
    /\ \A p \in people : times_assigned(p) = 1

\* C2: in whole mode no pizza created has both a person and a topping that
\* this person marked ALLERGY; with one pizza, a topping to which anybody of
\* the order is allergic is not on it.
C2_WholeNoAllergen ==
    pizza_mode = "whole" =>
        /\ \A i \in DOMAIN pizzas : \A p \in pizzas[i].people :
              \A t \in pizza_toppings(pizzas[i]) : ~allergic(p, t)
        /\ (pc = "returned" /\ num_pizzas = 1) =>
              \A p \in people : \A t \in toppings :
                  allergic(p, t) => t \notin pizza_toppings(pizzas[1])

\* C2 witness (scenario B): one whole pizza for two people, one of them
\* allergic to a topping the other likes, another topping on the pizza.
C2_Witness ==
    /\ pc = "returned"
    /\ pizza_mode = "whole"
    /\ num_pizzas = 1
    /\ num_people = 2
    /\ \E t \in toppings :
          /\ allergic(1, t)
          /\ prefs[<<2, t>>] = LIKE
          /\ t \notin pizza_toppings(pizzas[1])
    /\ pizza_toppings(pizzas[1]) # {}

\* C3 (as claimed): in half mode no person of a pizza marked ALLERGY on a
\* topping that pizza carries, on the left or on the right half.
C3_HalfNoAllergenOnPizza ==
    pizza_mode = "half" =>
        \A i \in DOMAIN pizzas : \A p \in pizzas[i].people :
            \A t \in pizza_toppings(pizzas[i]) : ~allergic(p, t)

\* C4: every pizza created carries at most ToppingCap toppings on its left
\* half (the whole pizza in whole mode) and at most ToppingCap on its right.
C4_ToppingCap ==
    \A i \in DOMAIN pizzas :
        /\ Cardinality(pizzas[i].left_toppings) <= ToppingCap
        /\ Cardinality(pizzas[i].right_toppings) <= ToppingCap

\* C4 witness: a lone person who likes all four toppings of the catalogue
\* gets exactly ToppingCap of them.
C4_Witness ==
    /\ pc = "returned"
    /\ num_people = 1
    /\ Cardinality(toppings) = ToppingCap + 1
    /\ \A t \in toppings : prefs[<<1, t>>] = LIKE
    /\ Cardinality(pizzas[1].left_toppings) = ToppingCap

\* C5: when solve() has returned, in both optimization modes, each pizza has
\* floor(P/K) or ceil(P/K) people, so the sizes differ by at most one.
C5_BalancedSizes ==
    pc = "returned" =>
        /\ \A i \in DOMAIN pizzas :
              LET n == Cardinality(pizzas[i].people)
              IN  \/ n = FloorDiv(num_people, num_pizzas)
                  \/ n = CeilDiv(num_people, num_pizzas)
        /\ \A i, j \in DOMAIN pizzas :
              Cardinality(pizzas[i].people) - Cardinality(pizzas[j].people) <= 1

\* C5 witness (scenario D): maximize_likes with two people who like opposite
\* toppings and two pizzas returns one person per pizza.
C5_Witness ==
    /\ pc = "returned"
    /\ optimization_mode = "maximize_likes"
    /\ num_people = 2
    /\ num_pizzas = 2
    /\ toppings = {1, 2}
    /\ prefs[<<1, 1>>] = LIKE /\ prefs[<<1, 2>>] = DISLIKE
    /\ prefs[<<2, 1>>] = DISLIKE /\ prefs[<<2, 2>>] = LIKE
    /\ \A i \in DOMAIN pizzas : Cardinality(pizzas[i].people) = 1

\* C6: when solve() has returned with 1 <= K <= P, there are K pizzas and
\* none of them is empty.
C6_NoEmptyPizza ==
    (pc = "returned" /\ 1 <= num_pizzas /\ num_pizzas <= num_people) =>
        /\ Len(pizzas) = num_pizzas
        /\ \A i \in DOMAIN pizzas : pizzas[i].people # {}

\* C6 witness: as many pizzas as people, in half mode.
C6_Witness ==
    /\ pc = "returned"
    /\ pizza_mode = "half"
    /\ num_people = 2
    /\ num_pizzas = 2
    /\ \A i \in DOMAIN pizzas : pizzas[i].people # {}

\* C7: pizza creation is all or nothing: once solve() has raised, no pizza
\* exists; once it has returned, exactly num_pizzas exist.
C7_AllOrNothing ==
    /\ pc = "raised" => Len(pizzas) = 0
    /\ pc = "returned" => Len(pizzas) = num_pizzas

\* C7 witness: a returned solve that created two pizzas.
C7_Witness ==
    /\ pc = "returned"
    /\ num_pizzas = 2
    /\ Len(pizzas) = 2

\* C8: an order with num_pizzas > number of people is rejected with
\* ValueError before a model is built or the engine is called, and without
\* creating a pizza.
C8_TooManyPizzasRejected ==
    num_pizzas > num_people =>
        /\ pc \in {"solve", "raised"}
        /\ pc = "raised" => error = "ValueError"
        /\ ~model_built
        /\ engine_calls = 0
        /\ pizzas = <<>>

\* C8 witness: the rejection of such an order.
C8_Witness ==
    /\ num_pizzas > num_people
    /\ pc = "raised"
    /\ error = "ValueError"
    /\ ~model_built

\* C9 (as claimed): an order with num_pizzas < 1 is rejected like one with
\* num_pizzas > P: ValueError, no model built, no engine call, no pizza.
C9_NoPizzasRejected ==
    num_pizzas < 1 =>
        /\ pc \in {"solve", "raised"}
        /\ pc = "raised" => error = "ValueError"
        /\ ~model_built
        /\ engine_calls = 0
        /\ pizzas = <<>>

\* C10: with one pizza and a shareability weight above 0, solve() raises
\* nothing (no division error in particular), and what it returns is exactly
\* one pizza with all the people of the order.
C10_SinglePizzaShareability ==
    (num_pizzas = 1 /\ shareability_bonus_weight > 0) =>
        /\ pc # "raised"
        /\ error = "none"
        /\ pc = "returned" => (Len(pizzas) = 1 /\ pizzas[1].people = people)

\* C10 witness: the case of the test, two people, one topping liked by one.
C10_Witness ==
    /\ pc = "returned"
    /\ num_pizzas = 1
    /\ shareability_bonus_weight = 8
    /\ num_people = 2
    /\ toppings = {1}
    /\ prefs[<<1, 1>>] = LIKE
    /\ Len(pizzas) = 1
    /\ pizzas[1].people = people

\* The sum of the stored values of topping t over the people of the order.
column_sum(t) == lpSum([p \in people |-> prefs[<<p, t>>]], people)

\* The toppings C11 is about: positive column sum, nobody allergic.
wanted_toppings ==
    {t \in toppings : column_sum(t) > 0 /\ \A p \in people : ~allergic(p, t)}

scenario_C ==
    /\ pizza_mode = "whole"
    /\ optimization_mode = "minimize_dislikes"
    /\ num_people = 2
    /\ num_pizzas = 2
    /\ toppings = {1, 2}
    /\ prefs = (<<1, 1>> :> LIKE @@ <<1, 2>> :> DISLIKE @@
                <<2, 1>> :> DISLIKE @@ <<2, 2>> :> LIKE)

\* C12: in scenario C every returned solution has each person alone on a
\* pizza that carries the topping that person likes and not the one they
\* dislike.
C12_OppositesIsolated ==
    (pc = "returned" /\ scenario_C) =>
        \A i \in DOMAIN pizzas :
            \/ pizzas[i].people = {1} /\ pizzas[i].left_toppings = {1}
            \/ pizzas[i].people = {2} /\ pizzas[i].left_toppings = {2}

\* C12 witness: scenario C solved, person 1 on the first pizza.
C12_Witness ==
    /\ pc = "returned"
    /\ scenario_C
    /\ pizzas[1].people = {1}
    /\ pizzas[1].left_toppings = {1}
    /\ pizzas[2].people = {2}
    /\ pizzas[2].left_toppings = {2}

\* C13 (as claimed): with shareability weight 0.8, two pizzas and
\* maximize_likes, a topping that person 1 LIKEs and person 2 is NEUTRAL to
\* is on the pizza of person 2.
C13_ShareabilitySpreads ==
    (/\ pc = "returned"
     /\ pizza_mode = "whole"
     /\ optimization_mode = "maximize_likes"
     /\ shareability_bonus_weight = 8
     /\ num_pizzas = 2
     /\ num_people = 2
     /\ toppings = {1}
     /\ prefs[<<1, 1>>] = LIKE /\ prefs[<<2, 1>>] = NEUTRAL)
    => \A i \in DOMAIN pizzas :
           2 \in pizzas[i].people => 1 \in pizzas[i].left_toppings

\* C14 (as claimed): with shareability weight 0 and maximize_likes, no
\* returned pizza carries a topping to which every person on it is NEUTRAL.
C14_NoIdleTopping ==
    (/\ pc = "returned"
     /\ pizza_mode = "whole"
     /\ optimization_mode = "maximize_likes"
     /\ shareability_bonus_weight = 0)
    => \A i \in DOMAIN pizzas : \A t \in pizzas[i].left_toppings :
           \E p \in pizzas[i].people : prefs[<<p, t>>] # NEUTRAL

\* The value the claim gives the pair (p, t): the stored row if there is
\* one, else DISLIKE or NEUTRAL by the person's flag.
resolved(p, t) ==
    IF <<p, t>> \in DOMAIN topping_preferences
    THEN topping_preferences[<<p, t>>]
    ELSE IF unrated_is_dislike[p] THEN DISLIKE ELSE NEUTRAL

\* C15: the matrix the model is built from has, for every person and topping
\* of the order, the stored value, or DISLIKE / NEUTRAL by the person's
\* unrated_is_dislike flag when nothing is stored; and a lone person with the
\* flag set never gets an unrated topping in maximize_likes.
C15_PreferenceResolution ==
    /\ prefs # None =>
           /\ DOMAIN prefs = people \X toppings
           /\ \A c \in people \X toppings : prefs[c] = resolved(c[1], c[2])
    /\ (/\ pc = "returned"
        /\ optimization_mode = "maximize_likes"
        /\ num_people = 1
        /\ unrated_is_dislike[1])
       => \A t \in toppings :
              <<1, t>> \notin DOMAIN topping_preferences
                 => t \notin pizza_toppings(pizzas[1])

\* C15 witness: the lone person with the flag set, one topping liked and one
\* unrated, gets the liked topping only.
C15_Witness ==
    /\ pc = "returned"
    /\ optimization_mode = "maximize_likes"
    /\ num_people = 1
    /\ unrated_is_dislike[1]
    /\ toppings = {1, 2}
    /\ topping_preferences = (<<1, 2>> :> LIKE)
    /\ prefs[<<1, 1>>] = DISLIKE
    /\ pizza_toppings(pizzas[1]) = {2}

\* The pairs marked ALLERGY in the matrix the model is built from.
allergy_pairs == {c \in people \X toppings : prefs[c] = ALLERGY}

\* The matrix with every ALLERGY entry replaced by 0.
without_allergy == [c \in DOMAIN prefs |-> IF prefs[c] = ALLERGY THEN 0 ELSE prefs[c]]

\* C16: in every assignment satisfying the hard constraints of the model
\* about to be solved (whole or half), each ALLERGY pair contributes
\* pref * z = 0 to every pizza's score, and the objective value is what it
\* is with 0 in place of -2, in the order's optimization mode.
C16_AllergyNeverScored ==
    /\ (pc = "whole_model" /\ num_pizzas # 0) =>
          \A s \in feasible_whole(people, toppings, num_pizzas, prefs) :
             /\ \A c \in allergy_pairs : \A k \in Range(num_pizzas) :
                    prefs[c] * z_value(Bin(k \in s.x[c[1]]),
                                       Bin(c[2] \in s.tv[k])) = 0
             /\ objective_whole(s, people, toppings, num_pizzas, prefs,
                                optimization_mode)
                  = objective_whole(s, people, toppings, num_pizzas,
                                    without_allergy, optimization_mode)
    /\ (pc = "half_model" /\ num_pizzas # 0) =>
          \A s \in feasible_half(people, toppings, num_pizzas, prefs) :
             /\ \A c \in allergy_pairs : \A k \in Range(num_pizzas) :
                    prefs[c] * (z_value_half(x_left(s, c[1], k),
                                             t_left(s, c[2], k))
                                + z_value_half(x_right(s, c[1], k),
                                               t_right(s, c[2], k))) = 0
             /\ objective_half(s, people, toppings, num_pizzas, prefs,
                               optimization_mode)
                  = objective_half(s, people, toppings, num_pizzas,
                                   without_allergy, optimization_mode)

\* C16 witness: a model about to be solved with an ALLERGY pair (p, t) and a
\* feasible assignment that puts a topping on the pizza of p.
C16_Witness ==
    /\ pc = "whole_model"
    /\ num_pizzas = 1
    /\ \E c \in allergy_pairs :
          \E s \in feasible_whole(people, toppings, num_pizzas, prefs) :
             /\ s.tv[1] # {}
             /\ score_whole(s, 1, people, toppings, prefs) > 0

\* The score of a set of people sharing a set of toppings: the sum of the
\* preference values of every person paired with every topping.
shared_score(who, what) ==
    lpSum([c \in who \X what |-> prefs[c]], who \X what)

\* The score of a returned whole pizza.
pizza_score(pizza) == shared_score(pizza.people, pizza.left_toppings)

\* The score of pizza k in a whole-mode assignment s.
assignment_score(s, k) == shared_score({p \in people : k \in s.x[p]}, s.tv[k])

\* The assignments satisfying the hard constraints of the order's
\* whole-mode model.
candidates == feasible_whole(people, toppings, num_pizzas, prefs)

worst_score(s) == SetMin({assignment_score(s, k) : k \in Range(num_pizzas)})

dislike_violations(who, what) ==
    Cardinality({c \in who \X what : prefs[c] = DISLIKE})

\* C19 (as claimed): solve_whole in minimize_dislikes returns pizzas with the
\* fewest DISLIKE violations among the assignments satisfying the hard
\* constraints.
C19_FewestDislikes ==
    (/\ pc = "returned"
     /\ pizza_mode = "whole"
     /\ optimization_mode = "minimize_dislikes")
    => LET returned ==
               lpSum([i \in DOMAIN pizzas |->
                         dislike_violations(pizzas[i].people,
                                            pizzas[i].left_toppings)],
                     DOMAIN pizzas)
       IN  \A s \in candidates :
               returned <= lpSum([k \in Range(num_pizzas) |->
                                    dislike_violations(
                                        {p \in people : k \in s.x[p]}, s.tv[k])],
                                 Range(num_pizzas))

\* C20 (as claimed): after any sequence of profile_edit and order_join
\* requests every stored preference is one of the four levels, and so is
\* every value of the matrix the solver scores.
C20_StoredLevels ==
    /\ \A c \in DOMAIN topping_preferences :
          topping_preferences[c] \in PreferenceChoices
    /\ \A c \in DOMAIN prefs : prefs[c] \in PreferenceChoices

\* C22 (as claimed): in every solution solve_whole returns, each of the
\* first K people in input order (person p of 1..K, pizzas numbered from 1)
\* is on a pizza whose index is at most p; the first person is on the first
\* pizza.
C22_CanonicalOrdering ==
    (pc = "returned" /\ pizza_mode = "whole")
    => \A p \in people : p <= num_pizzas =>
          \A k \in DOMAIN pizzas : k > p => p \notin pizzas[k].people

\* The symmetry break of the specification (constraint 5), which
\* solve_whole does not add: assign[p,k] = 0 for p < K, k > p.  People and
\* pizzas are numbered from 1 here, so person p of 1..K is on no pizza k > p.
symmetry_break(s, pp, K) ==
    \A p \in pp : p <= K => \A k \in Range(K) : k > p => k \notin s.x[p]

\* The assignment s with pizza k renamed perm[k].
relabel(s, perm) ==
    [x  |-> [p \in DOMAIN s.x |-> {perm[k] : k \in s.x[p]}],
     tv |-> [j \in DOMAIN s.tv |-> s.tv[CHOOSE k \in DOMAIN s.tv : perm[k] = j]]]

\* The pizzas of an assignment as a collection of (people, toppings) pairs.
collection(s) ==
    {<<{p \in DOMAIN s.x : k \in s.x[p]}, s.tv[k]>> : k \in DOMAIN s.tv}

\* The objective value of assignment s for the order of the state.
objective_value(s) ==
    objective_whole(s, people, toppings, num_pizzas, prefs, optimization_mode)

\* The optimal objective value over a set G of assignments (no value when G
\* is empty).
best_values(G) ==
    LET V == {objective_value(s) : s \in G}
    IN  {v \in V : \A w \in V : w <= v}

\* C23: for the whole-mode model of any order (either optimization mode),
\* every assignment satisfying the hard constraints solve_whole adds can be
\* relabelled by a permutation of the pizza indices into one that satisfies
\* them too, satisfies the symmetry break, has the same collection of
\* (people, toppings) pizzas and the same objective value; and the optimal
\* objective value under the symmetry break equals the one without it.
C23_SymmetryBreakHarmless ==
    (pc = "whole_model" /\ num_pizzas >= 1)
    => LET F == candidates
       IN  /\ \A s \in F : \E perm \in Permutations(Range(num_pizzas)) :
                 LET r == relabel(s, perm)
                 IN  /\ r \in F
                     /\ symmetry_break(r, people, num_pizzas)
                     /\ collection(r) = collection(s)
                     /\ objective_value(r) = objective_value(s)
           /\ best_values(F)
                = best_values({s \in F : symmetry_break(s, people, num_pizzas)})

\* C23 witness: a model of two pizzas in minimize_dislikes about to be
\* solved, with an optimum of positive value that the symmetry break
\* excludes.
C23_Witness ==
    /\ pc = "whole_model"
    /\ num_pizzas = 2
    /\ optimization_mode = "minimize_dislikes"
    /\ \E s \in candidates :
          /\ ~symmetry_break(s, people, num_pizzas)
          /\ objective_value(s) \in best_values(candidates)
          /\ objective_value(s) > 0

\* The values of z the linearisation admits when one of its three
\* inequalities is dropped (1: z <= x, 2: z <= t, 3: z >= x + t - 1).
relaxed(dropped, xv, tvv) ==
    {zv \in {0, 1} : /\ (dropped # 1 => zv <= xv)
                     /\ (dropped # 2 => zv <= tvv)
                     /\ (dropped # 3 => zv >= xv + tvv - 1)}

\* C24: in every solution returned, for every person, topping and pizza
\* the three inequalities leave z exactly one value, the product of the
\* person's and the topping's variable (whole pizzas, and each half of a
\* half-mode pizza); so the score of a whole-mode pizza is the sum of
\* pref[p,t] over the pairs of a person on it and a topping on it; and
\* without any one of the three inequalities some binary x, t admit a z
\* that is not their product.
C24_LinearizationExact ==
    pc = "returned" =>
       /\ pizza_mode = "whole" =>
             \A k \in Range(num_pizzas) :
                /\ \A p \in people : \A t \in toppings :
                      LET xv  == Bin(k \in solution.x[p])
                          tvv == Bin(t \in solution.tv[k])
                      IN  linearization(xv, tvv) = {xv * tvv}
                /\ score_whole(solution, k, people, toppings, prefs)
                     = pizza_score(pizzas[k])
       /\ pizza_mode = "half" =>
             \A k \in Range(num_pizzas) : \A p \in people : \A t \in toppings :
                /\ linearization_half(x_left(solution, p, k),
                                      t_left(solution, t, k))
                     = {x_left(solution, p, k) * t_left(solution, t, k)}
                /\ linearization_half(x_right(solution, p, k),
                                      t_right(solution, t, k))
                     = {x_right(solution, p, k) * t_right(solution, t, k)}
       /\ \A dropped \in 1 .. 3 :
             \E xv \in {0, 1} : \E tvv \in {0, 1} :
                relaxed(dropped, xv, tvv) # {xv * tvv}

\* C24 witness: a returned whole-mode solution with a pizza of non-zero
\* score carrying a topping, while another topping of the catalogue is on
\* no pizza (z = 1 and z = 0 both occur).
C24_Witness ==
    /\ pc = "returned"
    /\ pizza_mode = "whole"
    /\ \E k \in DOMAIN pizzas :
          /\ pizzas[k].left_toppings # {}
          /\ pizzas[k].people # {}
          /\ pizza_score(pizzas[k]) # 0
    /\ \E t \in toppings : \A k \in DOMAIN pizzas : t \notin pizzas[k].left_toppings

\* The whole-mode assignment that deals the people round the K pizzas in
\* turn and puts no topping on any pizza.
plain_whole ==
    [x  |-> [p \in people |-> {((p - 1) % num_pizzas) + 1}],
     tv |-> [k \in Range(num_pizzas) |-> {}]]

\* The same assignment in half mode: everybody on the left half, no pizza
\* split, no topping.
plain_half ==
    <<<<[p \in people |-> <<{((p - 1) % num_pizzas) + 1}, {}>>],
        [tr |-> [k \in Range(num_pizzas) |-> {}], is_split |-> {}]>>,
      [k \in Range(num_pizzas) |-> {}]>>

\* C25: for an order with 1 <= num_pizzas <= number of people, whatever the
\* catalogue (empty included), the preferences and the allergies, in either
\* pizza mode and either optimization mode: solve() raises nothing, the
\* engine's status is Optimal whenever it has run, and the balanced
\* assignment without toppings satisfies every hard constraint of the model.
C25_AlwaysSolvable ==
    (1 <= num_pizzas /\ num_pizzas <= num_people)
    => /\ error = "none"
       /\ pc # "raised"
       /\ engine_calls > 0 => status = LpStatusOptimal
       /\ pc \in {"whole_model", "whole_extract"} =>
             plain_whole \in feasible_whole(people, toppings, num_pizzas, prefs)
       /\ pc \in {"half_model", "half_extract"} =>
             plain_half \in feasible_half(people, toppings, num_pizzas, prefs)

\* C25 witness: three people on two pizzas in minimize_dislikes, one of
\* them allergic to every topping of a non-empty catalogue, solved with
\* status Optimal.
C25_Witness ==
    /\ pc = "returned"
    /\ num_people = 3
    /\ num_pizzas = 2
    /\ optimization_mode = "minimize_dislikes"
    /\ toppings # {}
    /\ \E p \in people : \A t \in toppings : allergic(p, t)
    /\ status = LpStatusOptimal

pizzas_of(o) == SelectSeq(ordered_pizzas, LAMBDA row : row.order = o)

\* C26 (as claimed): in the step in which solve() raises ValueError inside
\* a generate request, an order created by that request is deleted, a
\* proto-order is kept, and afterwards no pizza record exists for the order
\* either way.
C26_FailedSolveLeavesNoPizza ==
    [][\A r \in Requests :
          LET q == requests[r]
          IN  (q.pc = "solve" /\ requests'[r].raised = "ValueError")
              => /\ SelectSeq(ordered_pizzas',
                              LAMBDA row : row.order = q.target) = <<>>
                 /\ IF q.proto_order = NoOrder
                    THEN q.target \notin DOMAIN orders'
                    ELSE q.target \in DOMAIN orders']_vars

\* C27 (as claimed): in every reachable state every order has either no
\* OrderedPizza record or exactly num_pizzas of them, and each of its people
\* is on at most one of them.
C27_SolvedAtMostOnce ==
    \A o \in DOMAIN orders :
       /\ Len(pizzas_of(o)) \in {0, orders[o].num_pizzas}
       /\ \A person \in orders[o].people :
             Cardinality({i \in DOMAIN pizzas_of(o) :
                             person \in pizzas_of(o)[i].people}) <= 1

\* C29 (as claimed): a step of topping_merge from a source topping into a
\* target leaves every person who had ALLERGY on the source with ALLERGY on
\* the target, whatever that person had recorded on the target.
C29_MergeKeepsAllergy ==
    [][merged' # merged =>
          LET topping == merged'[1]
              target  == merged'[2]
          IN  \A p \in people :
                 (/\ <<p, topping>> \in DOMAIN topping_preferences
                  /\ topping_preferences[<<p, topping>>] = ALLERGY)
                 => /\ <<p, target>> \in DOMAIN topping_preferences'
                    /\ topping_preferences'[<<p, target>>] = ALLERGY]_vars

\* The people of a tuple or list, as a set.
members(a_list) == {a_list[i] : i \in DOMAIN a_list}

\* Every way of splitting the set S into p groups of floor(n/p) or
\* ceil(n/p) people, a way being a set of groups.
balanced_splits(S, p) ==
    LET n    == Cardinality(S)
        ways == {{{x \in S : f[x] = k} : k \in 1 .. p} : f \in [S -> 1 .. p]}
    IN  {w \in ways :
            /\ Cardinality(w) = p
            /\ \A g \in w : /\ Cardinality(g) >= FloorDiv(n, p)
                            /\ Cardinality(g) <= CeilDiv(n, p)}

\* C30 (as claimed): when the search loop has taken every grouping that
\* get_groups(lst, p) yields, the groupings seen, each read as a set of
\* groups, are all the ways of splitting the people of lst into p groups of
\* floor or ceil of n/p people, each seen once, and in each of them every
\* person is in exactly one group.
C30_AllGroupingsOnce ==
    (lst # <<>> /\ loop_index = Len(get_groups(lst, num_groups)))
    => LET seen == [i \in DOMAIN groupsets |->
                       {members(groupsets[i][g]) : g \in DOMAIN groupsets[i]}]
       IN  /\ {seen[i] : i \in DOMAIN seen}
                = balanced_splits(members(lst), num_groups)
           /\ \A i \in DOMAIN seen : \A j \in DOMAIN seen :
                 seen[i] = seen[j] => i = j
           /\ \A i \in DOMAIN groupsets : \A x \in members(lst) :
                 Cardinality({g \in DOMAIN groupsets[i] :
                     \E k \in DOMAIN groupsets[i][g] :
                        groupsets[i][g][k] = x}) = 1

====
